---- MODULE Spec2Model ----
(***************************************************************************)
(* Model of the Rhino/Grasshopper connection dispatcher                    *)
(* (grasshopper_mcp/rhino/connection.py), of the CodeListener socket call  *)
(* (send_code_to_rhino), of the server lifespan (grasshopper_mcp/server.py)*)
(* and of the workflow and plugin tools                                    *)
(* (grasshopper_mcp/tools/advanced_grasshopper.py).                        *)
(***************************************************************************)
EXTENDS Integers, Sequences, FiniteSets, TLC

VARIABLES
    config,          \* ServerConfig held by the connection
    platform_system, \* value of platform.system()
    connected,       \* RhinoConnection.connected
    rhino_instance,  \* RhinoConnection.rhino_instance
    init_branch,     \* which _initialize_* body completed last
    close_completed, \* history: close() has returned at least once
    last,            \* outcome of the last public operation
    send,            \* per caller: the send_code_to_rhino call in progress
    fs,              \* temporary files on disk: path -> file
    mat,             \* the create_parametric_definition call in progress
    lifespan         \* position of the server's app_lifespan context

connVars == <<config, platform_system, connected, rhino_instance, init_branch,
              close_completed, last>>
sendVars == <<send, fs>>
vars == <<connVars, sendVars, mat, lifespan>>

----------------------------------------------------------------------------
(* Values *)

Absent == "<absent>"
NoneVal == "None"

Platforms == {"Windows", "Darwin"}

\* ServerConfig: the fields the connection reads
Configs ==
    [use_compute_api : BOOLEAN,
     use_rhino3dm    : BOOLEAN,
     rhino_path      : {NoneVal, "C:/Rhino7"},
     compute_url     : {NoneVal, "https://compute"},
     compute_api_key : {NoneVal, "key"}]

\* A dict with no key
EmptyDict == [n \in {} |-> Absent]

\* rhino_instance is None after construction, a dict after _initialize_rhino;
\* extra holds the keys of the dict beyond those _initialize_rhino stores
RhinoInstanceNone ==
    [is_none |-> TRUE,  use_rhino3dm |-> FALSE, lib |-> NoneVal, extra |-> EmptyDict]
RhinoInstanceNative ==
    [is_none |-> FALSE, use_rhino3dm |-> FALSE, lib |-> "Rhino", extra |-> EmptyDict]
RhinoInstanceR3dm ==
    [is_none |-> FALSE, use_rhino3dm |-> TRUE,  lib |-> "r3d", extra |-> EmptyDict]

\* A result dictionary; a key the dictionary does not carry is Absent
Envelope(result, error, data, traceback, component_id) ==
    [result |-> result, error |-> error, data |-> data,
     traceback |-> traceback, component_id |-> component_id,
     model |-> Absent, response |-> Absent]

SuccessData(d)      == Envelope("success", Absent, d, Absent, Absent)
SuccessWithId(i, d) == Envelope("success", Absent, d, Absent, i)
ErrorOnly(msg)      == Envelope("error", msg, Absent, Absent, Absent)
\* Variant of the RhinoInside error dictionary without its traceback key
ErrorWithoutTrace(msg) == Envelope("error", msg, Absent, Absent, Absent)
ErrorWithTrace(msg) == Envelope("error", msg, Absent, "Traceback (most recent call last)", Absent)
SuccessModel(m)     == [Envelope("success", Absent, Absent, Absent, Absent) EXCEPT !.model = m]
SuccessResponse(r)  == [Envelope("success", Absent, Absent, Absent, Absent) EXCEPT !.response = r]
NoEnvelope          == Envelope(Absent, Absent, Absent, Absent, Absent)

\* What a call hands back to its caller: a returned envelope or a raised exception
Returned(env, io) == [kind |-> "return", exc |-> Absent, env |-> env, io |-> io]
Raised(exc, io)   == [kind |-> "raise",  exc |-> exc,    env |-> NoEnvelope, io |-> io]

----------------------------------------------------------------------------
(* Executed code *)

\* Snippets a caller hands to execute_code
UserCodes == {"result = 42", "x = 1", "raise ValueError('boom')", "raise Exception()"}

\* The code templates the connection builds itself; each is a triple-quoted
\* block whose first statement is indented
TemplateCodes == {"<read_3dm template>", "<script component template>",
                  "<add component template>", "<connect template>", "<run template>"}

IndentationErrorMsg == "unexpected indent (<string>, line 2)"

\* exec(code, globals_dict, locals_dict): the exception raised (msg is str(e))
\* or the value bound to `result` in locals_dict (None when not bound)
Exec(code) ==
    CASE code \in TemplateCodes ->
            [raised |-> TRUE, msg |-> IndentationErrorMsg, result |-> NoneVal]
      [] code = "result = 42" ->
            [raised |-> FALSE, msg |-> Absent, result |-> "42"]
      [] code = "x = 1" ->
            [raised |-> FALSE, msg |-> Absent, result |-> NoneVal]
      [] code = "raise ValueError('boom')" ->
            [raised |-> TRUE, msg |-> "boom", result |-> NoneVal]
      [] OTHER ->
            [raised |-> TRUE, msg |-> "", result |-> NoneVal]

\* Backend calls an operation makes, in order
ExecCall(code)     == [kind |-> "exec", target |-> code]
HttpCall(endpoint) == [kind |-> "http", target |-> endpoint]
LibCall(fn)        == [kind |-> "lib",  target |-> fn]

\* What requests.post / raise_for_status / response.json can do
HttpOutcomes == {"ok", "http_error", "network_error", "bad_json"}

HttpErrorMsg(o) ==
    CASE o = "http_error"    -> "500 Server Error"
      [] o = "network_error" -> "Connection refused"
      [] OTHER               -> "Expecting value: line 1 column 1 (char 0)"

\* What r3d.File3dm.Read can do
ReadOutcomes == {"model", "none", "raises"}

----------------------------------------------------------------------------
(* Backend bodies *)

\* Variant of _execute_rhino without its except clause
ExecuteRhinoUncaught(code) ==
    IF rhino_instance.is_none
    THEN Raised("TypeError", <<>>)
    ELSE LET r == Exec(code) IN
         IF r.raised
         THEN Raised("Exception", <<ExecCall(code)>>)
         ELSE Returned(SuccessData(r.result), <<ExecCall(code)>>)

\* _execute_rhino: dict(self.rhino_instance) is outside the try
ExecuteRhino(code) ==
    IF rhino_instance.is_none
    THEN Raised("TypeError", <<>>)
    ELSE LET r == Exec(code) IN
         IF r.raised
         THEN Returned(ErrorWithTrace(r.msg), <<ExecCall(code)>>)
         ELSE Returned(SuccessData(r.result), <<ExecCall(code)>>)

\* _execute_rhino3dm: self.rhino_instance["r3d"] is outside the try
ExecuteRhino3dm(code) ==
    IF rhino_instance.is_none
    THEN Raised("TypeError", <<>>)
    ELSE IF rhino_instance.lib # "r3d"
    THEN Raised("KeyError", <<>>)
    ELSE LET r == Exec(code) IN
         IF r.raised
         THEN Returned(ErrorOnly(r.msg), <<ExecCall(code)>>)
         ELSE Returned(SuccessData(r.result), <<ExecCall(code)>>)

\* Variant of the compute bodies whose success dictionary never carries
\* component_id at the top level
ComputePostWithoutId(endpoint, o, with_id, id) ==
    IF o = "ok"
    THEN Returned(SuccessData("json"), <<HttpCall(endpoint)>>)
    ELSE Returned(ErrorOnly(HttpErrorMsg(o)), <<HttpCall(endpoint)>>)

\* The try block shared by the five compute bodies; with_id says whether the
\* success dictionary carries component_id
ComputePost(endpoint, o, with_id, id) ==
    IF o = "ok"
    THEN Returned(IF with_id THEN SuccessWithId(id, "json") ELSE SuccessData("json"),
                  <<HttpCall(endpoint)>>)
    ELSE Returned(ErrorOnly(HttpErrorMsg(o)), <<HttpCall(endpoint)>>)

ExecuteCompute(o) == ComputePost("/grasshopper", o, FALSE, Absent)

----------------------------------------------------------------------------
(* Connection lifecycle *)

\* Variant of the selection that tests use_rhino3dm before use_compute_api
SelectBranchRhino3dmFirst ==
    IF config.use_rhino3dm THEN "rhino3dm"
    ELSE IF config.use_compute_api THEN "compute"
    ELSE IF platform_system = "Windows" THEN "rhinoinside"
    ELSE "rhino3dm"

\* initialize, lines 76-81, and the test at the head of _initialize_rhino
SelectBranch ==
    IF config.use_compute_api THEN "compute"
    ELSE IF platform_system = "Windows" /\ ~config.use_rhino3dm THEN "rhinoinside"
    ELSE "rhino3dm"

\* _initialize_compute: raises unless both the URL and the key are set
InitializeCompute ==
    IF config.compute_url = NoneVal \/ config.compute_api_key = NoneVal
    THEN [raised |-> TRUE,  exc |-> "ValueError", instance |-> rhino_instance]
    ELSE [raised |-> FALSE, exc |-> Absent,       instance |-> rhino_instance]

\* _initialize_rhino; path_exists, rhinoinside_ok and rhino3dm_ok are what
\* os.path.exists and the two imports find on the host
InitializeRhino(branch, path_exists, rhinoinside_ok, rhino3dm_ok) ==
    IF branch = "rhinoinside"
    THEN IF config.rhino_path = NoneVal \/ ~path_exists
         THEN [raised |-> TRUE, exc |-> "ValueError", instance |-> rhino_instance]
         ELSE IF ~rhinoinside_ok
         THEN [raised |-> TRUE, exc |-> "ImportError", instance |-> rhino_instance]
         ELSE [raised |-> FALSE, exc |-> Absent, instance |-> RhinoInstanceNative]
    ELSE IF ~rhino3dm_ok
         THEN [raised |-> TRUE, exc |-> "ImportError", instance |-> rhino_instance]
         ELSE [raised |-> FALSE, exc |-> Absent, instance |-> RhinoInstanceR3dm]

\* The last public call: its name, the branch it dispatched to (none when the
\* connected test turned it away), what the
\* backend did (input) and what the caller got back
NoInput == [code |-> Absent, http |-> Absent, read |-> Absent]
Record(op, dispatch, input, ret) ==
    [op |-> op, dispatch |-> dispatch, input |-> input, ret |-> ret]

\* The server runs its handlers on one event loop and no operation of the
\* connection suspends before it returns: a call starts when none is running
NoCallRunning ==
    /\ mat.pc = "idle"
    /\ \A c \in DOMAIN send : send[c].pc = "idle"
    /\ last.ret.kind # "pending"

\* initialize(): connected is set only when the selected body did not raise
Initialize(path_exists, rhinoinside_ok, rhino3dm_ok) ==
    LET branch == SelectBranch
        r  == IF branch = "compute"
             THEN InitializeCompute
             ELSE InitializeRhino(branch, path_exists, rhinoinside_ok, rhino3dm_ok)
    IN /\ NoCallRunning
       /\ rhino_instance' = r.instance
       /\ connected' = IF r.raised THEN connected ELSE TRUE
       /\ init_branch' = IF r.raised THEN init_branch ELSE branch
       /\ last' = Record("initialize", branch, NoInput,
                         IF r.raised THEN Raised(r.exc, <<>>) ELSE Returned(NoEnvelope, <<>>))
       /\ UNCHANGED <<config, platform_system, close_completed, sendVars, mat, lifespan>>

\* Variant of close() that forgets to clear the flag
CloseKeepsConnected ==
    /\ NoCallRunning
    /\ close_completed' = TRUE
    /\ last' = Record("close", Absent, NoInput, Returned(NoEnvelope, <<>>))
    /\ UNCHANGED <<config, platform_system, connected, rhino_instance, init_branch, sendVars, mat, lifespan>>

\* close()
Close ==
    /\ NoCallRunning
    /\ connected' = FALSE
    /\ close_completed' = TRUE
    /\ last' = Record("close", Absent, NoInput, Returned(NoEnvelope, <<>>))
    /\ UNCHANGED <<config, platform_system, rhino_instance, init_branch, sendVars, mat, lifespan>>

----------------------------------------------------------------------------
(* Dispatcher operations *)

NotConnectedMsg == "Not connected to Rhino/Grasshopper"

\* Variant of the execute_code dispatch that reads the configured flag
\* instead of the flag stored in rhino_instance
ExecuteDispatchFromConfig ==
    IF config.use_compute_api THEN "compute"
    ELSE IF rhino_instance.is_none THEN "AttributeError"
    ELSE IF config.use_rhino3dm THEN "rhino3dm"
    ELSE "rhinoinside"

\* The branch execute_code takes once connected (lines 379-386)
ExecuteDispatch ==
    IF config.use_compute_api THEN "compute"
    ELSE IF rhino_instance.is_none THEN "AttributeError"
    ELSE IF rhino_instance.use_rhino3dm THEN "rhino3dm"
    ELSE "rhinoinside"

\* Variant of the Grasshopper dispatch that tests the platform alone
GraphDispatchPlatformOnly ==
    IF config.use_compute_api THEN "compute"
    ELSE IF platform_system = "Windows"
         THEN IF rhino_instance.is_none THEN "AttributeError" ELSE "rhinoinside"
    ELSE "unsupported"

\* The branch the four Grasshopper operations take once connected
\* (lines 499-514, 647-661, 761-771, 890-898)
GraphDispatch ==
    IF config.use_compute_api THEN "compute"
    ELSE IF platform_system = "Windows"
         THEN IF rhino_instance.is_none THEN "AttributeError"
              ELSE IF ~rhino_instance.use_rhino3dm THEN "rhinoinside"
              ELSE "unsupported"
    ELSE "unsupported"

\* execute_code(code, parameters); o is the outcome of the HTTP exchange
ExecuteCode(code, o) ==
    IF ~connected THEN Raised("RuntimeError", <<>>)
    ELSE CASE ExecuteDispatch = "compute"        -> ExecuteCompute(o)
           [] ExecuteDispatch = "AttributeError" -> Raised("AttributeError", <<>>)
           [] ExecuteDispatch = "rhino3dm"       -> ExecuteRhino3dm(code)
           [] OTHER                              -> ExecuteRhino(code)

\* read_3dm_file(file_path); ro is the outcome of r3d.File3dm.Read
Read3dmFile(ro) ==
    IF ~connected THEN Raised("RuntimeError", <<>>)
    ELSE IF rhino_instance.is_none
    THEN Returned(ErrorOnly("'NoneType' object has no attribute 'get'"), <<>>)
    ELSE IF rhino_instance.use_rhino3dm
    THEN CASE ro = "model" -> Returned(SuccessModel("File3dm"), <<LibCall("File3dm.Read")>>)
           [] ro = "none"  -> Returned(ErrorOnly("Failed to open file: model.3dm"),
                                       <<LibCall("File3dm.Read")>>)
           [] OTHER        -> Returned(ErrorOnly("read failed"), <<LibCall("File3dm.Read")>>)
    ELSE ExecuteRhino("<read_3dm template>")

\* The shape shared by the four Grasshopper operations: the connected test,
\* then the compute body, the RhinoInside body or the fixed refusal
GraphOperation(endpoint, template, refusal, with_id, id, o) ==
    IF ~connected THEN Returned(ErrorOnly(NotConnectedMsg), <<>>)
    ELSE CASE GraphDispatch = "compute"        -> ComputePost(endpoint, o, with_id, id)
           [] GraphDispatch = "AttributeError" -> Raised("AttributeError", <<>>)
           [] GraphDispatch = "rhinoinside"    -> ExecuteRhino(template)
           [] OTHER                            -> Returned(ErrorOnly(refusal), <<>>)

\* The fixed refusal of each Grasshopper operation on the rhino3dm backend
RefusalMsg(op) ==
    CASE op = "create_gh_script_component" ->
            "Creating Grasshopper components requires RhinoInside or Compute API"
      [] op = "add_gh_component" ->
            "Adding Grasshopper components requires RhinoInside or Compute API"
      [] op = "connect_gh_components" ->
            "Connecting Grasshopper components requires RhinoInside or Compute API"
      [] OTHER ->
            "Running Grasshopper definitions requires RhinoInside or Compute API"

\* uuid.uuid4() truncated to its first 8 characters
UuidPrefixes == {"1b9d6bcd", "6ec0bd7f"}

CreateGhScriptComponent(u, o) ==
    GraphOperation("/grasshopper/scriptcomponent", "<script component template>",
                   RefusalMsg("create_gh_script_component"), TRUE, "py_" \o u, o)

AddGhComponent(u, o) ==
    GraphOperation("/grasshopper/component", "<add component template>",
                   RefusalMsg("add_gh_component"), TRUE, "comp_" \o u, o)

ConnectGhComponents(o) ==
    GraphOperation("/grasshopper/connect", "<connect template>",
                   RefusalMsg("connect_gh_components"), FALSE, Absent, o)

RunGhDefinition(o) ==
    GraphOperation("/grasshopper/run", "<run template>",
                   RefusalMsg("run_gh_definition"), FALSE, Absent, o)

ConnFrame ==
    /\ NoCallRunning
    /\ UNCHANGED <<config, platform_system, connected, rhino_instance, init_branch,
                   close_completed, sendVars, mat, lifespan>>

CallExecuteCode ==
    \E code \in UserCodes, o \in HttpOutcomes :
        /\ last' = Record("execute_code", IF connected THEN ExecuteDispatch ELSE Absent,
                          [code |-> code, http |-> o, read |-> Absent], ExecuteCode(code, o))
        /\ ConnFrame

CallRead3dmFile ==
    \E ro \in ReadOutcomes :
        /\ last' = Record("read_3dm_file", Absent,
                          [code |-> Absent, http |-> Absent, read |-> ro], Read3dmFile(ro))
        /\ ConnFrame

CallCreateGhScriptComponent ==
    \E u \in UuidPrefixes, o \in HttpOutcomes :
        /\ last' = Record("create_gh_script_component", IF connected THEN GraphDispatch ELSE Absent,
                          [code |-> Absent, http |-> o, read |-> Absent], CreateGhScriptComponent(u, o))
        /\ ConnFrame

CallAddGhComponent ==
    \E u \in UuidPrefixes, o \in HttpOutcomes :
        /\ last' = Record("add_gh_component", IF connected THEN GraphDispatch ELSE Absent,
                          [code |-> Absent, http |-> o, read |-> Absent], AddGhComponent(u, o))
        /\ ConnFrame

CallConnectGhComponents ==
    \E o \in HttpOutcomes :
        /\ last' = Record("connect_gh_components", IF connected THEN GraphDispatch ELSE Absent,
                          [code |-> Absent, http |-> o, read |-> Absent], ConnectGhComponents(o))
        /\ ConnFrame

CallRunGhDefinition ==
    \E o \in HttpOutcomes :
        /\ last' = Record("run_gh_definition", IF connected THEN GraphDispatch ELSE Absent,
                          [code |-> Absent, http |-> o, read |-> Absent], RunGhDefinition(o))
        /\ ConnFrame

\* An operation of the compute backend inside requests.post(url, json=payload,
\* headers=headers): the call passes no timeout, so it waits for the remote's
\* answer however long that takes; component_id is the id made before the call
Pending(endpoint, component_id) ==
    [kind |-> "pending", exc |-> Absent,
     env |-> Envelope(Absent, Absent, Absent, Absent, component_id),
     io |-> <<HttpCall(endpoint)>>]

ComputeOps == {"execute_code"} \cup
              {"create_gh_script_component", "add_gh_component",
               "connect_gh_components", "run_gh_definition"}

ComputeEndpoint(op) ==
    CASE op = "execute_code"               -> "/grasshopper"
      [] op = "create_gh_script_component" -> "/grasshopper/scriptcomponent"
      [] op = "add_gh_component"           -> "/grasshopper/component"
      [] op = "connect_gh_components"      -> "/grasshopper/connect"
      [] OTHER                             -> "/grasshopper/run"

\* A connected operation on the compute backend, up to its requests.post
CallComputeBegin ==
    /\ NoCallRunning
    /\ connected
    /\ \E op \in ComputeOps, u \in UuidPrefixes :
          /\ (IF op = "execute_code" THEN ExecuteDispatch ELSE GraphDispatch) = "compute"
          /\ last' = Record(op, "compute", NoInput,
                            Pending(ComputeEndpoint(op),
                                    CASE op = "create_gh_script_component" -> "py_" \o u
                                      [] op = "add_gh_component"           -> "comp_" \o u
                                      [] OTHER                             -> Absent))
    /\ UNCHANGED <<config, platform_system, connected, rhino_instance, init_branch,
                   close_completed, sendVars, mat, lifespan>>

\* The remote answers, or the exchange fails: the rest of the try block
CallComputeAnswer ==
    /\ last.ret.kind = "pending"
    /\ \E o \in HttpOutcomes :
          last' = [last EXCEPT !.input = [code |-> Absent, http |-> o, read |-> Absent],
                               !.ret = ComputePost(ComputeEndpoint(last.op), o,
                                                   last.ret.env.component_id # Absent,
                                                   last.ret.env.component_id)]
    /\ UNCHANGED <<config, platform_system, connected, rhino_instance, init_branch,
                   close_completed, sendVars, mat, lifespan>>

CallInitialize ==
    \E path_exists \in BOOLEAN, rhinoinside_ok \in BOOLEAN, rhino3dm_ok \in BOOLEAN :
        Initialize(path_exists, rhinoinside_ok, rhino3dm_ok)

----------------------------------------------------------------------------
(* The namespaces of the in-process exec *)

\* d.update(e)
Update(d, e) == e @@ d

\* The keys and values of the rhino_instance dict (lines 123 and 130)
InstanceDict(inst) ==
    IF inst.use_rhino3dm
    THEN Update(("r3d" :> "r3d") @@ ("use_rhino3dm" :> "True"), inst.extra)
    ELSE Update(("Rhino" :> "Rhino") @@ ("rg" :> "rg") @@ ("sc" :> "sc")
                @@ ("use_rhino3dm" :> "False"), inst.extra)

\* The parameters argument of execute_code: None or a dict
ParameterDicts == {EmptyDict, "scale" :> "3", "x" :> "7"}

\* Snippets as exec sees them: one assignment of a literal or of a name, to a
\* local name or (after a global statement) to a global one
NsCodes ==
    {[text |-> "x = 1",           target |-> "x",      global |-> FALSE, from |-> Absent,  value |-> "1"],
     [text |-> "result = x",      target |-> "result", global |-> FALSE, from |-> "x",     value |-> Absent],
     [text |-> "global g; g = 2", target |-> "g",      global |-> TRUE,  from |-> Absent,  value |-> "2"],
     [text |-> "result = g",      target |-> "result", global |-> FALSE, from |-> "g",     value |-> Absent],
     [text |-> "result = scale",  target |-> "result", global |-> FALSE, from |-> "scale", value |-> Absent],
     [text |-> "result = r3d",    target |-> "result", global |-> FALSE, from |-> "r3d",   value |-> Absent]}

\* exec(code, globals_dict, locals_dict): a name is looked up in the locals,
\* then in the globals; an assignment binds in the locals unless the name was
\* declared global
ExecNs(code, globals_dict, locals_dict) ==
    LET found == code.from = Absent \/ code.from \in DOMAIN locals_dict
                                    \/ code.from \in DOMAIN globals_dict
        v == IF code.from = Absent THEN code.value
             ELSE IF code.from \in DOMAIN locals_dict THEN locals_dict[code.from]
             ELSE globals_dict[code.from]
    IN IF ~found
       THEN [raised |-> TRUE, msg |-> "name is not defined",
             globals |-> globals_dict, locals |-> locals_dict]
       ELSE [raised |-> FALSE, msg |-> Absent,
             globals |-> IF code.global THEN Update(globals_dict, code.target :> v)
                         ELSE globals_dict,
             locals  |-> IF code.global THEN locals_dict
                         ELSE Update(locals_dict, code.target :> v)]

\* The globals both in-process bodies build before exec: a copy of the
\* rhino_instance dict (391), or r3d and the parameters dict (414), then
\* update(parameters) when parameters is not empty
ExecuteGlobals(branch, parameters) ==
    Update(IF branch = "rhino3dm"
           THEN ("r3d" :> InstanceDict(rhino_instance)["r3d"]) @@ ("parameters" :> "<dict>")
           ELSE InstanceDict(rhino_instance),
           parameters)

\* Variant in which _execute_rhino uses the rhino_instance dict itself as the
\* globals of exec, so that what the call binds there stays on the instance
InstanceAfterAliased(branch, globals_dict) ==
    IF branch = "rhinoinside"
    THEN [rhino_instance EXCEPT
            !.extra = [n \in DOMAIN globals_dict \ {"Rhino", "rg", "sc", "use_rhino3dm"}
                         |-> globals_dict[n]]]
    ELSE rhino_instance

\* rhino_instance once the body has returned: globals_dict and locals_dict
\* are local to the call and dict(self.rhino_instance) is a copy, so the
\* instance dict keeps the keys it had
InstanceAfter(branch, globals_dict) == rhino_instance

\* execute_code(code, parameters) on a connected in-process backend, with the
\* namespaces of the call in view
CallExecuteNamespace ==
    \E code \in NsCodes, parameters \in ParameterDicts :
        LET branch == ExecuteDispatch
            g0 == ExecuteGlobals(branch, parameters)
            r  == ExecNs(code, g0, EmptyDict)
            data == IF "result" \in DOMAIN r.locals THEN r.locals["result"] ELSE NoneVal
            io == <<ExecCall(code.text)>>
        IN /\ NoCallRunning
           /\ connected
           /\ branch \in {"rhinoinside", "rhino3dm"}
           /\ branch = "rhino3dm" => rhino_instance.lib = "r3d"
           /\ rhino_instance' = InstanceAfter(branch, r.globals)
           /\ last' = Record("execute_code", branch,
                             [code |-> code.text, http |-> Absent, read |-> Absent,
                              parameters |-> parameters, globals |-> g0,
                              reads |-> code.from],
                             IF r.raised
                             THEN Returned(IF branch = "rhinoinside"
                                           THEN ErrorWithTrace(r.msg)
                                           ELSE ErrorOnly(r.msg), io)
                             ELSE Returned(SuccessData(data), io))
           /\ UNCHANGED <<config, platform_system, connected, init_branch,
                          close_completed, sendVars, mat, lifespan>>

----------------------------------------------------------------------------
(* send_code_to_rhino: one step per statement that can fail *)

\* How many callers may be inside send_code_to_rhino at once
MaxCallers == 2
Callers == 1..MaxCallers

TempPaths == {"/tmp/tmpa1.py", "/tmp/tmpb2.py"}
SendCodes == {"print('a')", "result = 42"}

SendIdle ==
    [pc |-> "idle", code |-> Absent, temp_path |-> Absent, sock |-> "none",
     exc |-> Absent, sent |-> <<>>, recvs |-> 0, response |-> Absent,
     ret |-> Returned(NoEnvelope, <<>>)]

\* A directory entry: whether the file exists, the call whose mkstemp made it
\* and what was written to it
NoFile == [exists |-> FALSE, owner |-> 0, content |-> Absent]
File(owner, content) == [exists |-> TRUE, owner |-> owner, content |-> content]

\* json.dumps(msg_obj) of line 153
Message(path) == [filename |-> path, run |-> TRUE, reset |-> FALSE, temp |-> TRUE]

\* Variant of the cleanup that leaves the file in place
UnlinkSkipped(files, path) == files

\* os.unlink(temp_path) inside the finally: a missing file raises, and the
\* handler of lines 178-179 swallows it
Unlink(files, path) ==
    IF files[path].exists THEN [files EXCEPT ![path] = NoFile] ELSE files

\* The value handed back once the finally block has run: the pending return of
\* line 172, or the envelope the outer handler of lines 181-182 builds
SendResult(call) ==
    IF call.exc = Absent
    THEN Returned(SuccessResponse(call.response), <<>>)
    ELSE Returned(ErrorOnly(call.exc), <<>>)

SendStart(c) ==
    /\ send[c].pc = "idle"
    /\ \E code \in SendCodes :
          send' = [send EXCEPT ![c] = [SendIdle EXCEPT !.pc = "mkstemp", !.code = code]]
    /\ last' = Record("send_code_to_rhino", Absent, NoInput, Returned(NoEnvelope, <<>>))
    /\ UNCHANGED <<config, platform_system, connected, rhino_instance, init_branch,
                   close_completed, fs, mat, lifespan>>

\* Variant of the file creation that takes a name without creating the file
\* exclusively, so that the name may be one another call holds
SendMkstempNotExclusive(c) ==
    /\ send[c].pc = "mkstemp"
    /\ \/ \E p \in TempPaths :
             /\ fs' = [fs EXCEPT ![p] = File(c, "")]
             /\ send' = [send EXCEPT ![c].pc = "write", ![c].temp_path = p]
       \/ /\ send' = [send EXCEPT ![c].pc = "returned", ![c].exc = "No usable temporary directory",
                                  ![c].ret = Returned(ErrorOnly("No usable temporary directory"), <<>>)]
          /\ fs' = fs
    /\ UNCHANGED <<connVars, mat, lifespan>>

\* tempfile.mkstemp(suffix=".py"): a file that did not exist, or OSError,
\* which only the outer handler sees
SendMkstemp(c) ==
    /\ send[c].pc = "mkstemp"
    /\ \/ \E p \in TempPaths :
             /\ ~fs[p].exists
             /\ fs' = [fs EXCEPT ![p] = File(c, "")]
             /\ send' = [send EXCEPT ![c].pc = "write", ![c].temp_path = p]
       \/ /\ send' = [send EXCEPT ![c].pc = "returned", ![c].exc = "No usable temporary directory",
                                  ![c].ret = Returned(ErrorOnly("No usable temporary directory"), <<>>)]
          /\ fs' = fs
    /\ UNCHANGED <<connVars, mat, lifespan>>

\* with os.fdopen(fd, "w") as f: f.write(code)
SendWrite(c) ==
    /\ send[c].pc = "write"
    /\ \/ /\ fs' = [fs EXCEPT ![send[c].temp_path] = File(c, send[c].code)]
          /\ send' = [send EXCEPT ![c].pc = "connect"]
       \/ /\ fs' = fs
          /\ send' = [send EXCEPT ![c].pc = "cleanup", ![c].exc = "No space left on device"]
    /\ UNCHANGED <<connVars, mat, lifespan>>

\* socket.socket(...), settimeout(10), connect((host, port))
SendConnect(c) ==
    /\ send[c].pc = "connect"
    /\ \/ send' = [send EXCEPT ![c].pc = "sendall", ![c].sock = "open"]
       \/ send' = [send EXCEPT ![c].pc = "cleanup", ![c].sock = "open",
                               ![c].exc = "Connection refused"]
       \/ send' = [send EXCEPT ![c].pc = "cleanup", ![c].sock = "open", ![c].exc = "timed out"]
       \/ send' = [send EXCEPT ![c].pc = "cleanup", ![c].exc = "Too many open files"]
    /\ UNCHANGED <<connVars, fs, mat, lifespan>>

\* sock.sendall(json_msg.encode("utf-8"))
SendSendall(c) ==
    /\ send[c].pc = "sendall"
    /\ \/ send' = [send EXCEPT ![c].pc = "recv",
                               ![c].sent = Append(@, Message(send[c].temp_path))]
       \/ send' = [send EXCEPT ![c].pc = "cleanup", ![c].exc = "Broken pipe"]
    /\ UNCHANGED <<connVars, fs, mat, lifespan>>

\* Variant of the receive that tries once more after a first timeout
SendRecvRetrying(c) ==
    /\ send[c].pc = "recv"
    /\ \/ send' = [send EXCEPT ![c].pc = "close", ![c].recvs = @ + 1,
                               ![c].response = "response"]
       \/ send' = [send EXCEPT ![c].pc = IF send[c].recvs = 0 THEN "recv" ELSE "cleanup",
                               ![c].recvs = @ + 1,
                               ![c].exc = IF send[c].recvs = 0 THEN Absent ELSE "timed out"]
       \/ send' = [send EXCEPT ![c].pc = "cleanup", ![c].recvs = @ + 1,
                               ![c].exc = "'utf-8' codec can't decode byte"]
    /\ UNCHANGED <<connVars, fs, mat, lifespan>>

\* sock.recv(4096).decode("utf-8")
SendRecv(c) ==
    /\ send[c].pc = "recv"
    /\ \/ send' = [send EXCEPT ![c].pc = "close", ![c].recvs = @ + 1,
                               ![c].response = "response"]
       \/ send' = [send EXCEPT ![c].pc = "cleanup", ![c].recvs = @ + 1, ![c].exc = "timed out"]
       \/ send' = [send EXCEPT ![c].pc = "cleanup", ![c].recvs = @ + 1,
                               ![c].exc = "'utf-8' codec can't decode byte"]
    /\ UNCHANGED <<connVars, fs, mat, lifespan>>

\* sock.close(), then the return statement of line 172 enters the finally
SendClose(c) ==
    /\ send[c].pc = "close"
    /\ send' = [send EXCEPT ![c].pc = "cleanup", ![c].sock = "closed"]
    /\ UNCHANGED <<connVars, fs, mat, lifespan>>

\* finally: os.unlink(temp_path); then the call returns
SendCleanup(c) ==
    /\ send[c].pc = "cleanup"
    /\ fs' = Unlink(fs, send[c].temp_path)
    /\ send' = [send EXCEPT ![c].pc = "returned", ![c].ret = SendResult(send[c])]
    /\ UNCHANGED <<connVars, mat, lifespan>>

\* The caller takes the result; the next call starts from scratch
SendReturn(c) ==
    /\ send[c].pc = "returned"
    /\ send' = [send EXCEPT ![c] = SendIdle]
    /\ UNCHANGED <<connVars, fs, mat, lifespan>>

SendInit ==
    /\ send = [c \in Callers |-> SendIdle]
    /\ fs = [p \in TempPaths |-> NoFile]

----------------------------------------------------------------------------
(* generate_and_execute_rhino_code and generate_and_execute_gh_code *)

\* send_code_to_gh(code, file_path): open(file_path, "w") and write, or the
\* error dictionary of the except clause
SendCodeToGh(written, file_path) ==
    IF written
    THEN [file_path |-> file_path, message |-> "Grasshopper Python file created"]
         @@ Envelope("success", Absent, Absent, Absent, Absent)
    ELSE [file_path |-> Absent, message |-> Absent] @@ ErrorOnly("Permission denied")

\* The dictionary both generate_and_execute methods build from the result of
\* the send (lines 204-209 and 303-309): result.get(key, "") sets every key,
\* with the empty string for a key the result does not have; file_path is
\* Absent for the Rhino method, which has no such key
Combined(result, code, file_path) ==
    [code |-> code, file_path |-> file_path]
    @@ [Envelope(result.result, IF result.error = Absent THEN "" ELSE result.error,
                 Absent, Absent, Absent)
          EXCEPT !.response = IF result.response = Absent THEN "" ELSE result.response]

\* generate_and_execute_rhino_code returning: the send_code_to_rhino call it
\* made at line 201 has returned and its result is wrapped
GenerateAndExecuteReturn(c) ==
    /\ send[c].pc = "returned"
    /\ last' = Record("generate_and_execute_rhino_code", Absent,
                      [code |-> send[c].code, http |-> Absent, read |-> Absent],
                      Returned(Combined(send[c].ret.env, send[c].code, Absent), <<>>))
    /\ send' = [send EXCEPT ![c] = SendIdle]
    /\ UNCHANGED <<config, platform_system, connected, rhino_instance, init_branch,
                   close_completed, fs, mat, lifespan>>

\* generate_and_execute_gh_code(prompt, file_path): written is whether the
\* file could be written
CallGenerateAndExecuteGhCode ==
    \E written \in BOOLEAN, code \in SendCodes :
        LET result == SendCodeToGh(written, "script.py") IN
        /\ last' = Record("generate_and_execute_gh_code", Absent,
                          [code |-> code, http |-> Absent, read |-> Absent],
                          Returned(Combined(result, code,
                                            IF result.file_path = Absent THEN ""
                                            ELSE result.file_path), <<>>))
        /\ ConnFrame

----------------------------------------------------------------------------
(* call_grasshopper_plugin *)

\* Values of the inputs dictionary, by Python type
InputValues ==
    {[type |-> "int",   repr |-> "5"],
     [type |-> "float", repr |-> "2.5"],
     [type |-> "str",   repr |-> "'wind'"],
     [type |-> "bool",  repr |-> "True"],
     [type |-> "list",  repr |-> "[1, 2]"]}

\* inputs.items() in order: no input, one, or two
InputDicts ==
    {<<>>} \cup {<<v>> : v \in InputValues}
           \cup {<<v, w>> : v \in InputValues, w \in InputValues}

\* isinstance(value, classes): bool is a subclass of int
IsInstance(v, classes) ==
    v.type \in classes \/ (v.type = "bool" /\ "int" \in classes)

\* The chain of isinstance tests of lines 154-161, in the order written
ParamComponent(v) ==
    IF IsInstance(v, {"int", "float"}) THEN "Number"
    ELSE IF IsInstance(v, {"str"}) THEN "Text"
    ELSE IF IsInstance(v, {"bool"}) THEN "Boolean"
    ELSE "Unsupported input type"

\* What a backend call answers: the call numbered fail_at fails, the others
\* succeed
OutcomeAt(k, fail_at) == IF k = fail_at THEN "http_error" ELSE "ok"

\* What the tool hands back: its text (or the exception a backend call let
\* through) and the parameter components it has created
PluginReturn(kind, exc, text, made) ==
    [kind |-> kind, exc |-> exc, env |-> NoEnvelope, io |-> <<>>,
     text |-> text, made |-> made]

\* The loop over inputs.items() from input i on, then the final run; k backend
\* calls have been made so far
RECURSIVE PluginLoop(_, _, _, _, _, _)
PluginLoop(inputs, i, k, fail_at, u, made) ==
    IF i > Len(inputs)
    THEN LET run_result == RunGhDefinition(OutcomeAt(k + 1, fail_at)) IN
         IF run_result.kind = "raise"
         THEN PluginReturn("raise", run_result.exc, Absent, made)
         ELSE IF run_result.env.result = "error"
         THEN PluginReturn("return", Absent, "Error running definition with plugin", made)
         ELSE PluginReturn("return", Absent,
                           "Successfully called Grasshopper plugin component", made)
    ELSE LET comp_type == ParamComponent(inputs[i]) IN
         IF comp_type = "Unsupported input type"
         THEN PluginReturn("return", Absent, "Unsupported input type", made)
         ELSE LET input_result == AddGhComponent(u, OutcomeAt(k + 1, fail_at)) IN
              IF input_result.kind = "raise"
              THEN PluginReturn("raise", input_result.exc, Absent, made)
              ELSE IF input_result.env.result = "error"
              THEN PluginReturn("return", Absent, "Error creating input parameter", made)
              ELSE LET now == Append(made, [component |-> comp_type, value |-> inputs[i]])
                       connect_result == ConnectGhComponents(OutcomeAt(k + 2, fail_at))
                   IN IF connect_result.kind = "raise"
                      THEN PluginReturn("raise", connect_result.exc, Absent, now)
                      ELSE IF connect_result.env.result = "error"
                      THEN PluginReturn("return", Absent, "Error connecting", now)
                      ELSE PluginLoop(inputs, i + 1, k + 2, fail_at, u, now)

\* call_grasshopper_plugin from the plugin component on; k backend calls have
\* been made so far
PluginFrom(inputs, k, fail_at, u) ==
    LET plugin_comp_result == AddGhComponent(u, OutcomeAt(k + 1, fail_at)) IN
    IF plugin_comp_result.kind = "raise"
    THEN PluginReturn("raise", plugin_comp_result.exc, Absent, <<>>)
    ELSE IF plugin_comp_result.env.result = "error"
    THEN PluginReturn("return", Absent, "Error adding plugin component", <<>>)
    ELSE PluginLoop(inputs, 1, k + 1, fail_at, u, <<>>)

\* call_grasshopper_plugin(plugin_name, component_name, inputs, file_path)
CallGrasshopperPlugin ==
    \E inputs \in InputDicts, with_file \in BOOLEAN, u \in UuidPrefixes :
      \E fail_at \in 0..(2 * Len(inputs) + 3) :
        LET open_result == RunGhDefinition(OutcomeAt(1, fail_at))
            ret == IF ~with_file THEN PluginFrom(inputs, 0, fail_at, u)
                   ELSE IF open_result.kind = "raise"
                   THEN PluginReturn("raise", open_result.exc, Absent, <<>>)
                   ELSE IF open_result.env.result = "error"
                   THEN PluginReturn("return", Absent, "Error opening file", <<>>)
                   ELSE PluginFrom(inputs, 1, fail_at, u)
        IN /\ last' = Record("call_grasshopper_plugin",
                             IF connected THEN GraphDispatch ELSE Absent,
                             [code |-> Absent, http |-> Absent, read |-> Absent,
                              inputs |-> inputs],
                             ret)
           /\ ConnFrame

----------------------------------------------------------------------------
(* generate_grasshopper_workflow *)

\* A Python str is the sequence of its characters

\* Descriptions a caller may give
Descriptions ==
    {<<"C", "r", "e", "a", "t", "e", " ", "a", " ", "b", "o", "x", " ", "1", "0", "x", "2", "0", "x", "3", "0">>,
     <<"A", " ", "C", "U", "B", "E", " ", "o", "n", " ", "a", " ", "C", "y", "l", "i", "n", "d", "e", "r">>,
     <<"c", "y", "l", "i", "n", "d", "e", "r", " ", "t", "o", "w", "e", "r">>,
     <<"L", "o", "f", "t", " ", "b", "e", "t", "w", "e", "e", "n", " ", "t", "w", "o", " ", "c", "i", "r", "c", "l", "e", "s">>,
     <<"a", " ", "s", "m", "o", "o", "t", "h", " ", "s", "p", "h", "e", "r", "e">>}

\* More of them: two keywords at once, upper case, a keyword inside a longer
\* word, near misses and the empty string
MoreDescriptions ==
    Descriptions \cup
    {<<"B", "o", "x", " ", "a", "n", "d", " ", "c", "y", "l", "i", "n", "d", "e", "r">>,
     <<"L", "o", "f", "t", "e", "d", " ", "C", "y", "l", "i", "n", "d", "e", "r">>,
     <<"R", "u", "l", "e", "d", " ", "S", "U", "R", "F", "A", "C", "E">>,
     <<"B", "o", "x", "i", "n", "g", " ", "r", "i", "n", "g">>,
     <<"b", " ", "o", " ", "x">>,
     <<"c", "u", "b">>,
     <<>>}

UpperCase == <<"A", "B", "C", "D", "E", "F", "G", "H", "I", "J", "K", "L", "M",
               "N", "O", "P", "Q", "R", "S", "T", "U", "V", "W", "X", "Y", "Z">>
LowerCase == <<"a", "b", "c", "d", "e", "f", "g", "h", "i", "j", "k", "l", "m",
               "n", "o", "p", "q", "r", "s", "t", "u", "v", "w", "x", "y", "z">>

\* str.lower() on one character
LowerChar(c) ==
    IF \E i \in DOMAIN UpperCase : UpperCase[i] = c
    THEN LowerCase[CHOOSE i \in DOMAIN UpperCase : UpperCase[i] = c]
    ELSE c

\* description.lower()
Lower(d) == [i \in DOMAIN d |-> LowerChar(d[i])]

KwBox      == <<"b", "o", "x">>
KwCube     == <<"c", "u", "b", "e">>
KwCylinder == <<"c", "y", "l", "i", "n", "d", "e", "r">>
KwLoft     == <<"l", "o", "f", "t">>
KwSurface  == <<"s", "u", "r", "f", "a", "c", "e">>
Keywords == {KwBox, KwCube, KwCylinder, KwLoft, KwSurface}

\* kw in s
Contains(s, kw) ==
    \E i \in 0..(Len(s) - Len(kw)) : SubSeq(s, i + 1, i + Len(kw)) = kw

\* parameters.get(key, default)
Get(parameters, key, default) ==
    IF key \in DOMAIN parameters THEN parameters[key] ELSE default

Slider(name, value) == [name |-> name, component |-> "Number Slider", value |-> value]
Comp(name, component, type) == [name |-> name, component |-> component, type |-> type]
Script(name) == [name |-> name]
\* "Node.Param" as str.split(".") returns it
Conn(from_node, from_param, to_node, to_param) ==
    [from |-> <<from_node, from_param>>, to |-> <<to_node, to_param>>]

Workflow(parameters, components, scripts, connections) ==
    [parameters |-> parameters, components |-> components, scripts |-> scripts,
     connections |-> connections, result |-> "success"]

\* Variant of the box template whose last connection names a node it lacks
BoxWorkflowMisnamed(parameters) ==
    Workflow(<<Slider("Width", Get(parameters, "Width", 10)),
               Slider("Height", Get(parameters, "Height", 10)),
               Slider("Depth", Get(parameters, "Depth", 10))>>,
             <<Comp("BoxOrigin", "Construct Point", "Vector"),
               Comp("Box", "Box", "Surface")>>,
             <<>>,
             <<Conn("Width", "output", "Box", "X Size"),
               Conn("Height", "output", "Box", "Y Size"),
               Conn("Depth", "output", "Box", "Z Size"),
               Conn("Origin", "Point", "Box", "Base Point")>>)

BoxWorkflow(parameters) ==
    Workflow(<<Slider("Width", Get(parameters, "Width", 10)),
               Slider("Height", Get(parameters, "Height", 10)),
               Slider("Depth", Get(parameters, "Depth", 10))>>,
             <<Comp("BoxOrigin", "Construct Point", "Vector"),
               Comp("Box", "Box", "Surface")>>,
             <<>>,
             <<Conn("Width", "output", "Box", "X Size"),
               Conn("Height", "output", "Box", "Y Size"),
               Conn("Depth", "output", "Box", "Z Size"),
               Conn("BoxOrigin", "Point", "Box", "Base Point")>>)

CylinderWorkflow(parameters) ==
    Workflow(<<Slider("Radius", Get(parameters, "Radius", 5)),
               Slider("Height", Get(parameters, "Height", 20))>>,
             <<Comp("BasePoint", "Construct Point", "Vector"),
               Comp("Circle", "Circle", "Curve"),
               Comp("Cylinder", "Extrude", "Surface")>>,
             <<>>,
             <<Conn("Radius", "output", "Circle", "Radius"),
               Conn("BasePoint", "Point", "Circle", "Base"),
               Conn("Circle", "Circle", "Cylinder", "Base"),
               Conn("Height", "output", "Cylinder", "Direction")>>)

LoftWorkflow(parameters) ==
    Workflow(<<Slider("Points", Get(parameters, "Points", 5)),
               Slider("Height", Get(parameters, "Height", 20)),
               Slider("RadiusBottom", Get(parameters, "RadiusBottom", 10)),
               Slider("RadiusTop", Get(parameters, "RadiusTop", 5))>>,
             <<Comp("BasePoint", "Construct Point", "Vector"),
               Comp("TopPoint", "Construct Point", "Vector"),
               Comp("CircleBottom", "Circle", "Curve"),
               Comp("CircleTop", "Circle", "Curve"),
               Comp("Loft", "Loft", "Surface")>>,
             <<Script("HeightVector")>>,
             <<Conn("Height", "output", "HeightVector", "height"),
               Conn("HeightVector", "vector", "TopPoint", "Z"),
               Conn("RadiusBottom", "output", "CircleBottom", "Radius"),
               Conn("RadiusTop", "output", "CircleTop", "Radius"),
               Conn("BasePoint", "Point", "CircleBottom", "Base"),
               Conn("TopPoint", "Point", "CircleTop", "Base"),
               Conn("CircleBottom", "Circle", "Loft", "Curves"),
               Conn("CircleTop", "Circle", "Loft", "Curves")>>)

GenericWorkflow(parameters) ==
    Workflow(<<Slider("Parameter1", Get(parameters, "Parameter1", 10)),
               Slider("Parameter2", Get(parameters, "Parameter2", 20))>>,
             <<>>,
             <<Script("CustomGeometry")>>,
             <<Conn("Parameter1", "output", "CustomGeometry", "param1"),
               Conn("Parameter2", "output", "CustomGeometry", "param2")>>)

\* Variant of the keyword tests that looks for the cylinder first
GenerateCylinderFirst(description, parameters) ==
    LET description_lower == Lower(description) IN
    IF Contains(description_lower, KwCylinder)
    THEN CylinderWorkflow(parameters)
    ELSE IF Contains(description_lower, KwBox) \/ Contains(description_lower, KwCube)
    THEN BoxWorkflow(parameters)
    ELSE IF Contains(description_lower, KwLoft) \/ Contains(description_lower, KwSurface)
    THEN LoftWorkflow(parameters)
    ELSE GenericWorkflow(parameters)

GenerateGrasshopperWorkflow(description, parameters) ==
    LET description_lower == Lower(description) IN
    IF Contains(description_lower, KwBox) \/ Contains(description_lower, KwCube)
    THEN BoxWorkflow(parameters)
    ELSE IF Contains(description_lower, KwCylinder)
    THEN CylinderWorkflow(parameters)
    ELSE IF Contains(description_lower, KwLoft) \/ Contains(description_lower, KwSurface)
    THEN LoftWorkflow(parameters)
    ELSE GenericWorkflow(parameters)

----------------------------------------------------------------------------
(* create_parametric_definition: one step per backend call *)

ParameterInputs ==
    {<<>>, [k \in {"Width", "Height", "Depth"} |->
               CASE k = "Width" -> 10 [] k = "Height" -> 20 [] OTHER -> 30]}
OutputFiles == {NoneVal, "out.gh"}

\* Workflows whose connections name a node that no section defines, one such
\* connection each, at every position and on either end
DanglingConns == {Conn("Ghost", "output", "C", "y"), Conn("B", "output", "Ghost", "y")}
DanglingWorkflows ==
    { Workflow(<<Slider("A", 1), Slider("B", 2)>>, <<Comp("C", "Addition", "Maths")>>,
               <<Script("S")>>, conns) :
        conns \in { <<d, Conn("A", "output", "C", "x"), Conn("S", "out", "C", "z")>> :
                        d \in DanglingConns }
              \cup { <<Conn("A", "output", "C", "x"), d, Conn("S", "out", "C", "z")>> :
                        d \in DanglingConns }
              \cup { <<Conn("A", "output", "C", "x"), Conn("S", "out", "C", "z"), d>> :
                        d \in DanglingConns } }

NodeNames ==
    {"Width", "Height", "Depth", "BoxOrigin", "Box", "Radius", "BasePoint", "Circle",
     "Cylinder", "Points", "RadiusBottom", "RadiusTop", "TopPoint", "CircleBottom",
     "CircleTop", "Loft", "HeightVector", "Parameter1", "Parameter2", "CustomGeometry",
     "A", "B", "C", "S", "Ghost", "Origin"}

NoWorkflow == Workflow(<<>>, <<>>, <<>>, <<>>)
NoReturn == [result |-> Absent, prefix |-> Absent, error |-> Absent]

MatIdle ==
    [pc |-> "idle", idx |-> 0, description |-> <<>>,
     workflow |-> NoWorkflow, output_file |-> NoneVal,
     component_ids |-> [n \in NodeNames |-> Absent], calls |-> <<>>, created |-> <<>>,
     exc |-> Absent, ret |-> NoReturn]

\* One backend call as the connection saw it, with the envelope it returned
NoArgs ==
    [component_name |-> Absent, component_type |-> Absent, nick |-> Absent,
     conn |-> 0, source_id |-> Absent, source_param |-> Absent,
     target_id |-> Absent, target_param |-> Absent, save_output |-> FALSE,
     output_path |-> NoneVal]
Called(op, args, r) == [op |-> op, args |-> args, ret |-> r]

\* Variant of the order of the four loops with the connections before the scripts
NextPhaseConnectionsFirst(phase) ==
    CASE phase = "parameters"  -> "components"
      [] phase = "components"  -> "connections"
      [] phase = "connections" -> "scripts"
      [] OTHER                 -> "run"

\* The order of the four loops and of the run that follows them
NextPhase(phase) ==
    CASE phase = "parameters" -> "components"
      [] phase = "components" -> "scripts"
      [] phase = "scripts"    -> "connections"
      [] OTHER                -> "run"

PhaseLen(wf, phase) ==
    CASE phase = "parameters"  -> Len(wf.parameters)
      [] phase = "components"  -> Len(wf.components)
      [] phase = "scripts"     -> Len(wf.scripts)
      [] phase = "connections" -> Len(wf.connections)
      [] OTHER                 -> 1

\* A for loop over an empty section is passed without a call
RECURSIVE Enter(_, _)
Enter(wf, phase) ==
    IF PhaseLen(wf, phase) = 0
    THEN Enter(wf, NextPhase(phase))
    ELSE [pc |-> phase, idx |-> 1]

After(wf, phase, idx) ==
    IF idx < PhaseLen(wf, phase)
    THEN [pc |-> phase, idx |-> idx + 1]
    ELSE Enter(wf, NextPhase(phase))

\* Variant of the result test that never takes the early return
FailedNever(env) == FALSE

\* if result["result"] == "error": return ...
Failed(env) == env.result = "error"

\* Variant of the skip test that looks at the source end only
SkippedSourceOnly(source_id, target_id) == source_id \in {Absent, ""}

\* if not source_id or not target_id: continue
Skipped(source_id, target_id) ==
    source_id \in {Absent, ""} \/ target_id \in {Absent, ""}

\* What the function does with the result of a node-creating call: re-raise,
\* return the error text, or store result["component_id"] and go on
AfterNodeCall(m, name, call, prefix) ==
    LET r == call.ret
        logged == [m EXCEPT !.calls = Append(@, call)]
    IN IF r.kind = "raise"
       THEN [logged EXCEPT !.pc = "done", !.exc = r.exc]
       ELSE IF Failed(r.env)
       THEN [logged EXCEPT !.pc = "done",
                           !.ret = [result |-> "error", prefix |-> prefix, error |-> r.env.error]]
       ELSE IF r.env.component_id = Absent
       THEN [logged EXCEPT !.pc = "done", !.exc = "KeyError",
                           !.created = IF r.env.result = "success"
                                       THEN Append(@, name) ELSE @]
       ELSE LET nxt == After(m.workflow, m.pc, m.idx) IN
            [logged EXCEPT !.pc = nxt.pc, !.idx = nxt.idx,
                           !.component_ids[name] = r.env.component_id,
                           !.created = Append(@, name)]

\* The same for a call that creates nothing (connect, run, save)
AfterPlainCall(m, call, prefix, nxt) ==
    LET r == call.ret
        logged == [m EXCEPT !.calls = Append(@, call)]
    IN IF r.kind = "raise"
       THEN [logged EXCEPT !.pc = "done", !.exc = r.exc]
       ELSE IF Failed(r.env)
       THEN [logged EXCEPT !.pc = "done",
                           !.ret = [result |-> "error", prefix |-> prefix, error |-> r.env.error]]
       ELSE IF nxt.pc = "done"
       THEN [logged EXCEPT !.pc = "done",
                           !.ret = [result |-> "success", prefix |-> Absent, error |-> Absent]]
       ELSE [logged EXCEPT !.pc = nxt.pc, !.idx = nxt.idx]

MatFrame == UNCHANGED <<connVars, sendVars, lifespan>>

\* Lines 22-36: the workflow is generated from the description
MatStartFrom(descriptions) ==
    /\ NoCallRunning
    /\ \E description \in descriptions, parameters \in ParameterInputs, output_file \in OutputFiles :
          LET wf == GenerateGrasshopperWorkflow(description, parameters)
              first == Enter(wf, "parameters")
          IN mat' = [MatIdle EXCEPT !.pc = first.pc, !.idx = first.idx,
                                    !.description = description,
                                    !.workflow = wf, !.output_file = output_file]
    /\ MatFrame

MatStart == MatStartFrom(Descriptions)

MatStartMore == MatStartFrom(MoreDescriptions)

\* The loops of lines 36-107 entered with a workflow given by the caller
MatStartGiven ==
    /\ NoCallRunning
    /\ \E wf \in DanglingWorkflows, output_file \in OutputFiles :
          LET first == Enter(wf, "parameters")
          IN mat' = [MatIdle EXCEPT !.pc = first.pc, !.idx = first.idx,
                                    !.workflow = wf, !.output_file = output_file]
    /\ MatFrame

\* Lines 39-49
MatParameter ==
    /\ mat.pc = "parameters"
    /\ \E u \in UuidPrefixes, o \in HttpOutcomes :
          LET info == mat.workflow.parameters[mat.idx]
              args == [NoArgs EXCEPT !.component_name = info.component,
                                     !.component_type = "Params", !.nick = info.name]
          IN mat' = AfterNodeCall(mat, info.name,
                                  Called("add_gh_component", args, AddGhComponent(u, o)),
                                  "Error creating parameter component: ")
    /\ MatFrame

\* Lines 52-62
MatComponent ==
    /\ mat.pc = "components"
    /\ \E u \in UuidPrefixes, o \in HttpOutcomes :
          LET info == mat.workflow.components[mat.idx]
              args == [NoArgs EXCEPT !.component_name = info.component,
                                     !.component_type = info.type, !.nick = info.name]
          IN mat' = AfterNodeCall(mat, info.name,
                                  Called("add_gh_component", args, AddGhComponent(u, o)),
                                  "Error creating component: ")
    /\ MatFrame

\* Lines 65-76
MatScript ==
    /\ mat.pc = "scripts"
    /\ \E u \in UuidPrefixes, o \in HttpOutcomes :
          LET info == mat.workflow.scripts[mat.idx]
              args == [NoArgs EXCEPT !.nick = info.name]
          IN mat' = AfterNodeCall(mat, info.name,
                                  Called("create_gh_script_component", args,
                                         CreateGhScriptComponent(u, o)),
                                  "Error creating script component: ")
    /\ MatFrame

\* Lines 79-94: one connection, skipped or passed to connect_gh_components
MatConnection ==
    /\ mat.pc = "connections"
    /\ LET connection == mat.workflow.connections[mat.idx]
           source == connection.from
           target == connection.to
           source_id == mat.component_ids[source[1]]
           target_id == mat.component_ids[target[1]]
           nxt == After(mat.workflow, "connections", mat.idx)
       IN IF Skipped(source_id, target_id)
          THEN mat' = [mat EXCEPT !.pc = nxt.pc, !.idx = nxt.idx]
          ELSE \E o \in HttpOutcomes :
                  LET args == [NoArgs EXCEPT !.conn = mat.idx,
                                             !.source_id = source_id, !.source_param = source[2],
                                             !.target_id = target_id, !.target_param = target[2]]
                  IN mat' = AfterPlainCall(mat,
                                Called("connect_gh_components", args, ConnectGhComponents(o)),
                                "Error connecting components: ", nxt)
    /\ MatFrame

\* Variant of the test of line 103 that saves whatever was asked
SaveAlways(output_file) == TRUE

\* if output_file: None and the empty string are false
SaveRequested(output_file) == output_file \notin {NoneVal, ""}

\* Lines 97-100, and the test of line 103
MatRun ==
    /\ mat.pc = "run"
    /\ \E o \in HttpOutcomes :
          mat' = AfterPlainCall(mat, Called("run_gh_definition", NoArgs, RunGhDefinition(o)),
                                "Error running definition: ",
                                IF SaveRequested(mat.output_file)
                                THEN [pc |-> "save", idx |-> 1]
                                ELSE [pc |-> "done", idx |-> 1])
    /\ MatFrame

\* Lines 104-107
MatSave ==
    /\ mat.pc = "save"
    /\ \E o \in HttpOutcomes :
          LET args == [NoArgs EXCEPT !.save_output = TRUE, !.output_path = mat.output_file]
          IN mat' = AfterPlainCall(mat, Called("run_gh_definition", args, RunGhDefinition(o)),
                                   "Error saving definition: ", [pc |-> "done", idx |-> 1])
    /\ MatFrame

\* The tool call is over
MatReturn ==
    /\ mat.pc = "done"
    /\ mat' = MatIdle
    /\ MatFrame

----------------------------------------------------------------------------
(* The server's lifespan context (server.py, app_lifespan) *)

\* app_lifespan before its first statement: no connection built yet
LifespanStart ==
    [pc |-> "start", connections |-> 0, initialize_calls |-> 0,
     close_calls |-> 0, yielded |-> FALSE, exit |-> Absent]

\* Variant of app_lifespan without the try/finally around initialize():
\* when initialize() raises the context is left without close()
LifespanEnterNoFinally ==
    \E env_ok \in BOOLEAN, path_exists \in BOOLEAN,
       rhinoinside_ok \in BOOLEAN, rhino3dm_ok \in BOOLEAN :
        LET branch == SelectBranch
            r  == IF branch = "compute"
                 THEN InitializeCompute
                 ELSE InitializeRhino(branch, path_exists, rhinoinside_ok, rhino3dm_ok)
        IN /\ lifespan.pc = "start"
           /\ IF ~env_ok
              THEN /\ lifespan' = [lifespan EXCEPT !.pc = "exited", !.exit = "ValueError"]
                   /\ UNCHANGED <<connected, rhino_instance, init_branch,
                                  close_completed, last>>
              ELSE /\ rhino_instance' = r.instance
                   /\ IF r.raised
                      THEN /\ UNCHANGED <<connected, init_branch, close_completed>>
                           /\ last' = Record("initialize", branch, NoInput,
                                             Raised(r.exc, <<>>))
                           /\ lifespan' = [lifespan EXCEPT
                                             !.pc = "exited", !.connections = @ + 1,
                                             !.initialize_calls = @ + 1,
                                             !.exit = r.exc]
                      ELSE /\ connected' = TRUE
                           /\ init_branch' = branch
                           /\ UNCHANGED close_completed
                           /\ last' = Record("initialize", branch, NoInput,
                                             Returned(NoEnvelope, <<>>))
                           /\ lifespan' = [lifespan EXCEPT
                                             !.pc = "serving", !.connections = @ + 1,
                                             !.initialize_calls = @ + 1,
                                             !.yielded = TRUE]
           /\ UNCHANGED <<config, platform_system, sendVars, mat>>

\* app_lifespan from its first statement to the yield: from_env (env_ok is
\* whether int(SERVER_PORT) parses), RhinoConnection(config), initialize();
\* when initialize() raises, the finally clause runs close() and the
\* exception leaves the context, which never yields
LifespanEnter ==
    \E env_ok \in BOOLEAN, path_exists \in BOOLEAN,
       rhinoinside_ok \in BOOLEAN, rhino3dm_ok \in BOOLEAN :
        LET branch == SelectBranch
            r  == IF branch = "compute"
                 THEN InitializeCompute
                 ELSE InitializeRhino(branch, path_exists, rhinoinside_ok, rhino3dm_ok)
        IN /\ lifespan.pc = "start"
           /\ IF ~env_ok
              THEN /\ lifespan' = [lifespan EXCEPT !.pc = "exited", !.exit = "ValueError"]
                   /\ UNCHANGED <<connected, rhino_instance, init_branch,
                                  close_completed, last>>
              ELSE /\ rhino_instance' = r.instance
                   /\ IF r.raised
                      THEN /\ connected' = FALSE
                           /\ UNCHANGED init_branch
                           /\ close_completed' = TRUE
                           /\ last' = Record("close", Absent, NoInput,
                                             Returned(NoEnvelope, <<>>))
                           /\ lifespan' = [lifespan EXCEPT
                                             !.pc = "exited", !.connections = @ + 1,
                                             !.initialize_calls = @ + 1,
                                             !.close_calls = @ + 1,
                                             !.exit = r.exc]
                      ELSE /\ connected' = TRUE
                           /\ init_branch' = branch
                           /\ UNCHANGED close_completed
                           /\ last' = Record("initialize", branch, NoInput,
                                             Returned(NoEnvelope, <<>>))
                           /\ lifespan' = [lifespan EXCEPT
                                             !.pc = "serving", !.connections = @ + 1,
                                             !.initialize_calls = @ + 1,
                                             !.yielded = TRUE]
           /\ UNCHANGED <<config, platform_system, sendVars, mat>>

\* What ends the serving phase: the server shuts down, or an exception is
\* thrown into the context at the yield
LifespanExits == {"shutdown", "Exception"}

\* app_lifespan resumed at the yield: the finally clause runs close()
LifespanExit ==
    \E exit \in LifespanExits :
        /\ lifespan.pc = "serving"
        /\ NoCallRunning
        /\ connected' = FALSE
        /\ close_completed' = TRUE
        /\ last' = Record("close", Absent, NoInput, Returned(NoEnvelope, <<>>))
        /\ lifespan' = [lifespan EXCEPT !.pc = "exited", !.close_calls = @ + 1,
                                        !.exit = exit]
        /\ UNCHANGED <<config, platform_system, rhino_instance, init_branch,
                       sendVars, mat>>

\* A handler reaches the connection through ctx.request_context.lifespan_context,
\* which exists from the yield until the context is left
LifespanHandle ==
    /\ lifespan.pc = "serving"
    /\ \/ CallExecuteCode
       \/ CallRead3dmFile
       \/ CallCreateGhScriptComponent
       \/ CallAddGhComponent
       \/ CallConnectGhComponents
       \/ CallRunGhDefinition

----------------------------------------------------------------------------
(* The connection as its callers can drive it *)

\* __init__: connected False, rhino_instance None; the configuration and the
\* platform are whatever the process was started with
Init ==
    /\ config \in Configs
    /\ platform_system \in Platforms
    /\ connected = FALSE
    /\ rhino_instance = RhinoInstanceNone
    /\ init_branch = Absent
    /\ close_completed = FALSE
    /\ last = Record("__init__", Absent, NoInput, Returned(NoEnvelope, <<>>))
    /\ SendInit
    /\ mat = MatIdle
    /\ lifespan = LifespanStart

Next ==
    \/ CallInitialize
    \/ Close
    \/ CallExecuteCode
    \/ CallRead3dmFile
    \/ CallCreateGhScriptComponent
    \/ CallAddGhComponent
    \/ CallConnectGhComponents
    \/ CallRunGhDefinition
    \/ SendStart(1)
    \/ SendMkstemp(1)
    \/ SendWrite(1)
    \/ SendConnect(1)
    \/ SendSendall(1)
    \/ SendRecv(1)
    \/ SendClose(1)
    \/ SendCleanup(1)
    \/ SendReturn(1)

Spec == Init /\ [][Next]_vars

\* Several callers inside send_code_to_rhino at once (the method reads no
\* field of the connection but the codelistener address), on a connection
\* that was constructed and left alone
SendNext ==
    \E c \in Callers :
        \/ SendStart(c)
        \/ SendMkstemp(c)
        \/ SendWrite(c)
        \/ SendConnect(c)
        \/ SendSendall(c)
        \/ SendRecv(c)
        \/ SendClose(c)
        \/ SendCleanup(c)
        \/ SendReturn(c)

\* ServerConfig(): the dataclass defaults
ServerConfigDefaults ==
    [use_compute_api |-> FALSE, use_rhino3dm |-> FALSE, rhino_path |-> NoneVal,
     compute_url |-> NoneVal, compute_api_key |-> NoneVal]

SendSpecInit == Init /\ config = ServerConfigDefaults

SpecSend == SendSpecInit /\ [][SendNext]_vars

\* The connection serving create_parametric_definition
MatSteps ==
    \/ MatParameter
    \/ MatComponent
    \/ MatScript
    \/ MatConnection
    \/ MatRun
    \/ MatSave
    \/ MatReturn

MatNext == CallInitialize \/ MatStart \/ MatSteps

\* The materialisation reads the configuration through the dispatch alone
\* (use_compute_api, and use_rhino3dm by way of rhino_instance): its servers
\* are configured with every path, URL and key given
MatConfigs ==
    {c \in Configs : c.rhino_path # NoneVal /\ c.compute_url # NoneVal
                                           /\ c.compute_api_key # NoneVal}

MatSpecInit == Init /\ config \in MatConfigs

SpecMat == MatSpecInit /\ [][MatNext]_vars

\* The same loops run on workflows with a dangling connection
DanglingNext == CallInitialize \/ MatStartGiven \/ MatSteps

SpecDangling == MatSpecInit /\ [][DanglingNext]_vars

\* A server started with the default configuration taking descriptions of
\* every kind: without a backend for graph operations each materialisation
\* ends at its first call
GenNext == CallInitialize \/ MatStartMore \/ MatParameter \/ MatReturn

SpecGen == SendSpecInit /\ [][GenNext]_vars

\* The connection with its remote peers in view: the socket call statement by
\* statement and the HTTP operations split at requests.post. The statements
\* of send_code_to_rhino each end by themselves (the socket has a 10 s
\* timeout); nothing makes the remote answer an HTTP request
WaitNext ==
    \/ CallInitialize
    \/ Close
    \/ CallComputeBegin
    \/ CallComputeAnswer
    \/ SendStart(1)
    \/ SendMkstemp(1)
    \/ SendWrite(1)
    \/ SendConnect(1)
    \/ SendSendall(1)
    \/ SendRecv(1)
    \/ SendClose(1)
    \/ SendCleanup(1)
    \/ SendReturn(1)

WaitFairness ==
    /\ WF_vars(SendMkstemp(1))
    /\ WF_vars(SendWrite(1))
    /\ WF_vars(SendConnect(1))
    /\ WF_vars(SendSendall(1))
    /\ WF_vars(SendRecv(1))
    /\ WF_vars(SendClose(1))
    /\ WF_vars(SendCleanup(1))

SpecWait == Init /\ [][WaitNext]_vars /\ WaitFairness

\* The connection as the server drives it: built, initialised and closed by
\* app_lifespan, used by the handlers in between
LifespanNext ==
    \/ LifespanEnter
    \/ LifespanHandle
    \/ LifespanExit

SpecLifespan == Init /\ [][LifespanNext]_vars

\* The in-process backends with the namespaces of each exec in view
NamespaceNext == CallInitialize \/ Close \/ CallExecuteNamespace

SpecNamespace == Init /\ [][NamespaceNext]_vars

\* Every operation of the connection that hands back a result dictionary
EnvelopeNext ==
    \/ Next
    \/ GenerateAndExecuteReturn(1)
    \/ CallGenerateAndExecuteGhCode

SpecEnvelope == Init /\ [][EnvelopeNext]_vars

\* The plugin tool on a connection the server has initialised or not
PluginNext == CallInitialize \/ Close \/ CallGrasshopperPlugin

SpecPlugin == MatSpecInit /\ [][PluginNext]_vars

----------------------------------------------------------------------------
(* Properties *)

GraphOps == {"create_gh_script_component", "add_gh_component",
             "connect_gh_components", "run_gh_definition"}
DispatcherOps == {"execute_code", "read_3dm_file"} \cup GraphOps

\* No operation changes connected except initialize and close, so the flag a
\* dispatcher operation saw is the flag of the state it left behind

\* C1: every dispatcher operation called while connected is false returns an
\* error envelope (NotConnected) and never raises
C1_NotConnectedReturnsEnvelope ==
    (last.op \in DispatcherOps /\ ~connected) =>
        /\ last.ret.kind = "return"
        /\ last.ret.env.result = "error"

\* Whether the backend the last call reached failed, read from what the
\* backend did: the HTTP exchange, the executed code, the library call
BackendFailed(call) ==
    CASE call.dispatch = "compute" -> call.input.http # "ok"
      [] call.op = "execute_code" -> Exec(call.input.code).raised
      [] call.op = "read_3dm_file" ->
            IF rhino_instance.is_none \/ ~rhino_instance.use_rhino3dm
            THEN TRUE
            ELSE call.input.read = "raises"
      [] call.dispatch = "rhinoinside" -> TRUE
      [] OTHER -> FALSE

C4_ClosedIsTerminal == close_completed => ~connected

\* C4 as amended: connected turns true only in an initialize() that returned,
\* turns false only in close(), and is false when close() returns; a later
\* initialize() may set it again
C4_ConnectedFollowsInitializeAndClose ==
    [][ /\ (~connected /\ connected') =>
              (last'.op = "initialize" /\ last'.ret.kind = "return")
        /\ (connected /\ ~connected') => last'.op = "close"
        /\ last'.op = "close" => ~connected' ]_vars

C4_Witness ==
    /\ close_completed
    /\ connected
    /\ last.op = "initialize"

\* C5: an initialize() that returned selected exactly one backend: HTTP
\* whenever use_compute_api is set; otherwise RhinoInside on Windows without
\* use_rhino3dm; otherwise rhino3dm
C5_InitializeSelectsBackend ==
    (last.op = "initialize" /\ last.ret.kind = "return") =>
        /\ connected
        /\ config.use_compute_api =>
              (init_branch = "compute" /\ rhino_instance.is_none)
        /\ (~config.use_compute_api /\ platform_system = "Windows" /\ ~config.use_rhino3dm) =>
              (init_branch = "rhinoinside" /\ rhino_instance = RhinoInstanceNative)
        /\ (~config.use_compute_api /\ ~(platform_system = "Windows" /\ ~config.use_rhino3dm)) =>
              (init_branch = "rhino3dm" /\ rhino_instance = RhinoInstanceR3dm)

C5_Witness ==
    /\ last.op = "initialize"
    /\ last.ret.kind = "return"
    /\ config.use_compute_api
    /\ config.use_rhino3dm
    /\ platform_system = "Windows"
    /\ init_branch = "compute"

\* C6: the branch each call re-derives is the backend initialize() chose
C6_DispatchMatchesInitialize ==
    connected =>
        /\ last.op = "execute_code" => last.dispatch = init_branch
        /\ last.op \in GraphOps =>
              last.dispatch = (IF init_branch = "rhino3dm" THEN "unsupported" ELSE init_branch)

C6_Witness ==
    /\ connected
    /\ last.op = "execute_code"
    /\ platform_system = "Darwin"
    /\ ~config.use_rhino3dm
    /\ last.dispatch = "rhino3dm"

\* C7: on a connected rhino3dm backend each Grasshopper operation returns its
\* fixed refusal naming RhinoInside or the Compute API, makes no backend call
\* and does not raise; the envelope depends on the operation alone
C7_PortableRefusesGraphOps ==
    (connected /\ init_branch = "rhino3dm" /\ last.op \in GraphOps) =>
        /\ last.ret.kind = "return"
        /\ last.ret.env = ErrorOnly(RefusalMsg(last.op))
        /\ last.ret.io = <<>>

C7_Witness ==
    /\ connected
    /\ init_branch = "rhino3dm"
    /\ platform_system = "Windows"
    /\ last.op = "add_gh_component"
    /\ last.ret.env.result = "error"

\* The nodes of a workflow in the order the claim gives: parameters, then
\* components, then scripts
NodeSeq(wf) ==
    [i \in 1..Len(wf.parameters) |-> wf.parameters[i].name]
    \o [i \in 1..Len(wf.components) |-> wf.components[i].name]
    \o [i \in 1..Len(wf.scripts) |-> wf.scripts[i].name]

\* 1: parameter node, 2: component node, 3: script node, 4: connect, 5: run
Rank(call) ==
    CASE call.op = "add_gh_component" /\ call.args.component_type = "Params" -> 1
      [] call.op = "add_gh_component" -> 2
      [] call.op = "create_gh_script_component" -> 3
      [] call.op = "connect_gh_components" -> 4
      [] OTHER -> 5

IsNodeCall(call) == Rank(call) <= 3
IsConnectCall(call) == call.op = "connect_gh_components"
ReturnedError(call) == call.ret.kind = "return" /\ call.ret.env.result = "error"

\* C8: the backend calls of a materialisation come in the order parameters,
\* components, scripts, connections; a connect call is issued only after every
\* node-creating call has returned, and with ids already in the name->id map
C8_NodesBeforeConnections ==
    LET calls == mat.calls
        nodes == NodeSeq(mat.workflow)
    IN \A j \in DOMAIN calls :
          /\ j > 1 => Rank(calls[j - 1]) <= Rank(calls[j])
          /\ IsNodeCall(calls[j]) => (j <= Len(nodes) /\ calls[j].args.nick = nodes[j])
          /\ IsConnectCall(calls[j]) =>
                LET connection == mat.workflow.connections[calls[j].args.conn] IN
                /\ j > Len(nodes)
                /\ \A i \in 1..Len(nodes) :
                      calls[i].ret.kind = "return" /\ calls[i].ret.env.result = "success"
                /\ calls[j].args.source_id # Absent
                /\ calls[j].args.target_id # Absent
                /\ calls[j].args.source_id = mat.component_ids[connection.from[1]]
                /\ calls[j].args.target_id = mat.component_ids[connection.to[1]]

C8_Witness ==
    /\ mat.pc = "done"
    /\ mat.ret.result = "success"
    /\ Len(mat.workflow.components) > 0
    /\ Len(mat.workflow.scripts) > 0
    /\ Len(mat.calls) = Len(NodeSeq(mat.workflow)) + Len(mat.workflow.connections) + 1

\* C9: the first backend call that returns an error envelope is the last call
\* made; the caller gets that error's message and the nodes created before
\* it are still there
C9_FailFastNoRollback ==
    \A k \in DOMAIN mat.calls :
        ReturnedError(mat.calls[k]) =>
            /\ k = Len(mat.calls)
            /\ mat.pc = "done"
            /\ mat.exc = Absent
            /\ mat.ret.result = "error"
            /\ mat.ret.error = mat.calls[k].ret.env.error
            /\ LET before == SelectSeq(SubSeq(mat.calls, 1, k - 1), IsNodeCall)
               IN mat.created = [i \in 1..Len(before) |-> before[i].args.nick]

C9_Witness ==
    /\ mat.pc = "done"
    /\ mat.ret.result = "error"
    /\ mat.ret.prefix = "Error connecting components: "
    /\ Len(mat.calls) > 1
    /\ IsConnectCall(mat.calls[Len(mat.calls)])
    /\ ReturnedError(mat.calls[Len(mat.calls)])
    /\ Len(mat.created) = Len(NodeSeq(mat.workflow))

\* The connections of a workflow whose two ends are nodes of the workflow
ResolvableConns(wf) ==
    LET names == {NodeSeq(wf)[i] : i \in DOMAIN NodeSeq(wf)}
        Resolves(i) == wf.connections[i].from[1] \in names /\ wf.connections[i].to[1] \in names
    IN SelectSeq([i \in 1..Len(wf.connections) |-> i], Resolves)

\* C10: materialising a workflow with one dangling connection never raises,
\* and a run the backend does not fail creates every node and passes every
\* connection but the dangling one to connect_gh_components
C10_DanglingConnectionSkipped ==
    /\ mat.exc = Absent
    /\ (mat.pc = "done" /\ mat.ret.result = "success") =>
          LET node_calls == SelectSeq(mat.calls, IsNodeCall)
              conn_calls == SelectSeq(mat.calls, IsConnectCall)
          IN /\ [i \in 1..Len(node_calls) |-> node_calls[i].args.nick] = NodeSeq(mat.workflow)
             /\ [i \in 1..Len(conn_calls) |-> conn_calls[i].args.conn]
                   = ResolvableConns(mat.workflow)

C10_Witness ==
    /\ mat.pc = "done"
    /\ mat.ret.result = "success"
    /\ Len(mat.workflow.connections) = 3
    /\ Len(SelectSeq(mat.calls, IsConnectCall)) = 2
    /\ mat.workflow.connections[3].to[1] = "Ghost"

SameLetter(a, b) ==
    a = b \/ \E i \in DOMAIN UpperCase : {a, b} = {UpperCase[i], LowerCase[i]}

\* The description contains the keyword, whatever the case of its letters
Mentions(d, kw) ==
    \E i \in 0..(Len(d) - Len(kw)) : \A j \in 1..Len(kw) : SameLetter(d[i + j], kw[j])

\* The templates a workflow is an instance of
TemplatesOf(wf) ==
    {k \in {"box", "cylinder", "loft", "generic"} :
        \E p \in ParameterInputs :
            wf = CASE k = "box"      -> BoxWorkflow(p)
                   [] k = "cylinder" -> CylinderWorkflow(p)
                   [] k = "loft"     -> LoftWorkflow(p)
                   [] OTHER          -> GenericWorkflow(p)}

\* C12: the workflow generated for a description has result success and is
\* exactly one template: the box if the description mentions box or cube in
\* any case, else the cylinder if it mentions cylinder, else the loft if it
\* mentions loft or surface, else the generic one
C12_TemplateByKeywordPriority ==
    mat.pc # "idle" =>
        LET d == mat.description IN
        /\ mat.workflow.result = "success"
        /\ TemplatesOf(mat.workflow) =
              {IF Mentions(d, KwBox) \/ Mentions(d, KwCube) THEN "box"
               ELSE IF Mentions(d, KwCylinder) THEN "cylinder"
               ELSE IF Mentions(d, KwLoft) \/ Mentions(d, KwSurface) THEN "loft"
               ELSE "generic"}

C12_Witness ==
    /\ mat.pc = "parameters"
    /\ Mentions(mat.description, KwCube)
    /\ ~Contains(mat.description, KwCube)
    /\ Mentions(mat.description, KwCylinder)
    /\ TemplatesOf(mat.workflow) = {"box"}

\* The keys of one section of a workflow
SectionNames(section) == {section[i].name : i \in DOMAIN section}

\* C13: in every generated workflow (looked at as it comes out of the
\* generation, before the first backend call) both ends of every connection
\* are keys of its parameters, components or scripts, and the box workflow has
\* the parameters Width, Height, Depth and no other, a component Box, and 4
\* connections; the materialisation passes the connections to
\* connect_gh_components one after the other without a gap
C13_GeneratedConnectionsResolve ==
    LET wf == mat.workflow
        d == mat.description
        conn_calls == SelectSeq(mat.calls, IsConnectCall)
    IN /\ (mat.pc # "idle" /\ mat.calls = <<>>) =>
             /\ ResolvableConns(wf) = [i \in 1..Len(wf.connections) |-> i]
             /\ (Mentions(d, KwBox) \/ Mentions(d, KwCube)) =>
                   /\ [i \in DOMAIN wf.parameters |-> wf.parameters[i].name]
                         = <<"Width", "Height", "Depth">>
                   /\ "Box" \in SectionNames(wf.components)
                   /\ Len(wf.connections) = 4
       /\ \A i \in DOMAIN conn_calls : conn_calls[i].args.conn = i
       /\ (mat.pc \in {"run", "save"} \/ (mat.pc = "done" /\ mat.ret.result = "success")) =>
             Len(conn_calls) = Len(wf.connections)

C13_Witness ==
    /\ mat.pc = "done"
    /\ mat.ret.result = "success"
    /\ Mentions(mat.description, KwBox)
    /\ Len(SelectSeq(mat.calls, IsConnectCall)) = 4
    /\ mat.component_ids["BoxOrigin"] # Absent

IsRunCall(call) == call.op = "run_gh_definition"

\* C14: run_gh_definition is called only after every node call and one
\* connect call per connection have succeeded, and no connect call follows it;
\* the first run call asks for no saving; a second run call is made only
\* after the first returned success and an output file was requested, and it
\* carries save_output = TRUE and the output path; a materialisation that
\* succeeds has made one run call without an output file, two with one
C14_RunOnceThenSave ==
    LET calls == mat.calls
        run_calls == SelectSeq(calls, IsRunCall)
    IN /\ \A j \in DOMAIN calls :
             IsRunCall(calls[j]) =>
                /\ Len(SelectSeq(SubSeq(calls, 1, j - 1), IsNodeCall)) = Len(NodeSeq(mat.workflow))
                /\ Len(SelectSeq(SubSeq(calls, 1, j - 1), IsConnectCall))
                      = Len(mat.workflow.connections)
                /\ \A i \in 1..(j - 1) : ~ReturnedError(calls[i])
                /\ \A i \in (j + 1)..Len(calls) : IsRunCall(calls[i])
       /\ Len(run_calls) <= 2
       /\ Len(run_calls) >= 1 =>
             /\ ~run_calls[1].args.save_output
             /\ run_calls[1].args.output_path = NoneVal
       /\ Len(run_calls) = 2 =>
             /\ ~ReturnedError(run_calls[1])
             /\ mat.output_file # NoneVal
             /\ run_calls[2].args.save_output
             /\ run_calls[2].args.output_path = mat.output_file
       /\ (mat.pc = "done" /\ mat.ret.result = "success") =>
             Len(run_calls) = (IF mat.output_file = NoneVal THEN 1 ELSE 2)
       /\ (mat.pc = "done" /\ Len(run_calls) >= 1 /\ ReturnedError(run_calls[1])) =>
             Len(run_calls) = 1

C14_Witness ==
    /\ mat.pc = "done"
    /\ mat.ret.result = "success"
    /\ mat.output_file = "out.gh"
    /\ Len(SelectSeq(mat.calls, IsRunCall)) = 2
    /\ mat.calls[Len(mat.calls)].args.save_output

\* C16: the ids of the nodes created in one connection lifetime are pairwise
\* distinct: no two successful add_gh_component or create_gh_script_component
\* calls of a materialisation returned the same component_id
C16_NodeIdsDistinct ==
    \A i, j \in DOMAIN mat.calls :
        (/\ i < j
         /\ IsNodeCall(mat.calls[i]) /\ IsNodeCall(mat.calls[j])
         /\ mat.calls[i].ret.kind = "return" /\ mat.calls[i].ret.env.result = "success"
         /\ mat.calls[j].ret.kind = "return" /\ mat.calls[j].ret.env.result = "success") =>
            mat.calls[i].ret.env.component_id # mat.calls[j].ret.env.component_id

EmbeddedBranches == {"rhinoinside", "rhino3dm"}

\* The snippet runs to its end and binds result
BindsResult(code) == ~Exec(code).raised /\ Exec(code).result # NoneVal

\* C17: executing a snippet that binds result = X returns a success envelope
\* whose data is X on each backend: the in-process exec (RhinoInside and
\* rhino3dm), the socket call once the listener has answered, and the HTTP
\* call once the remote has answered (there the data is the JSON of the
\* answer, which the model does not look into)
C17_ExecuteReturnsResult ==
    /\ (connected /\ last.op = "execute_code" /\ BindsResult(last.input.code)) =>
          /\ last.dispatch \in EmbeddedBranches =>
                /\ last.ret.kind = "return"
                /\ last.ret.env.result = "success"
                /\ last.ret.env.data = Exec(last.input.code).result
          /\ (last.dispatch = "compute" /\ last.input.http = "ok") =>
                /\ last.ret.kind = "return"
                /\ last.ret.env.result = "success"
                /\ last.ret.env.data # Absent
    /\ \A c \in Callers :
          (send[c].pc = "returned" /\ send[c].exc = Absent /\ BindsResult(send[c].code)) =>
             /\ send[c].ret.env.result = "success"
             /\ send[c].ret.env.data = Exec(send[c].code).result

\* C18: executing a snippet that raises returns an error envelope whose error
\* message is a non-empty string, whatever exception the snippet raises, one
\* constructed without a message included (stated for the backends that run
\* the snippet in this process; on the socket and HTTP backends the remote
\* runs it)
C18_RaisingSnippetHasMessage ==
    (/\ connected
     /\ last.op = "execute_code"
     /\ last.dispatch \in EmbeddedBranches
     /\ Exec(last.input.code).raised) =>
        /\ last.ret.kind = "return"
        /\ last.ret.env.result = "error"
        /\ last.ret.env.error \notin {Absent, NoneVal, ""}

HasTrace(env) == env.traceback \notin {Absent, NoneVal, ""}

SocketWaiting == send[1].pc \in {"connect", "sendall", "recv"}

\* C20: an operation invoked on a connected backend returns even when the
\* remote peer never answers: an HTTP operation that waits for the remote
\* eventually has its envelope, and so has a socket call
C20_EveryCallReturns ==
    /\ (last.ret.kind = "pending") ~> (last.ret.kind = "return")
    /\ SocketWaiting ~> (send[1].pc = "returned")

\* The socket half alone
SocketCallReturns == SocketWaiting ~> (send[1].pc = "returned")

\* C21: the lifespan builds at most one connection, calls initialize() on it
\* at most once and close() at most once; once the context is left, a
\* connection that was built has had initialize() and close() called exactly
\* once each (shutdown, failure while serving, initialize() raising); the
\* connection is handed to handlers only after initialize() returned without
\* raising and before close()
C21_LifespanClosesOnce ==
    /\ lifespan.connections <= 1
    /\ lifespan.initialize_calls <= 1
    /\ lifespan.close_calls <= 1
    /\ (lifespan.pc = "exited" /\ lifespan.connections = 1) =>
           /\ lifespan.initialize_calls = 1
           /\ lifespan.close_calls = 1
           /\ ~connected
    /\ lifespan.yielded =>
           /\ lifespan.initialize_calls = 1
           /\ init_branch # Absent
    /\ lifespan.pc = "serving" =>
           /\ lifespan.yielded
           /\ lifespan.close_calls = 0
           /\ connected
    /\ last.op \in DispatcherOps =>
           /\ lifespan.pc = "serving"
           /\ lifespan.close_calls = 0

C21_Witness ==
    /\ lifespan.pc = "exited"
    /\ lifespan.exit \in {"ValueError", "ImportError"}
    /\ lifespan.connections = 1
    /\ ~lifespan.yielded
    /\ lifespan.close_calls = 1

\* Position of each statement of send_code_to_rhino in the text of the method
SendRank(pc) ==
    CASE pc = "idle"     -> 0
      [] pc = "mkstemp"  -> 1
      [] pc = "write"    -> 2
      [] pc = "connect"  -> 3
      [] pc = "sendall"  -> 4
      [] pc = "recv"     -> 5
      [] pc = "close"    -> 6
      [] pc = "cleanup"  -> 7
      [] pc = "returned" -> 8

\* C22: within one send_code_to_rhino call the steps (temporary file, write,
\* connect, send, receive, close) happen in that order and each at most once:
\* every step of a call either completes and moves to the next statement, or
\* fails and goes straight to the cleanup and an error envelope; the one
\* message sent is {filename, run: true, reset: false, temp: true} for the
\* call's own file, and no call receives twice
C22_StepsInOrderOnce ==
    [][\A c \in Callers :
          LET a == send[c]
              b == send'[c]
          IN a # b =>
               \/ a.pc = "returned" /\ b = SendIdle
               \/ /\ a.pc # "returned"
                  /\ a.exc = Absent
                  /\ \/ /\ b.exc = Absent
                        /\ SendRank(b.pc) = SendRank(a.pc) + 1
                     \/ /\ b.exc # Absent
                        /\ b.pc \in {"cleanup", "returned"}
                        /\ b.sent = a.sent
                  /\ Len(b.sent) <= 1
                  /\ b.recvs <= 1
                  /\ b.recvs > a.recvs => a.pc = "recv"
                  /\ b.sent # a.sent =>
                        /\ a.pc = "sendall"
                        /\ b.sent = <<[filename |-> a.temp_path, run |-> TRUE,
                                       reset |-> FALSE, temp |-> TRUE]>>
               \/ /\ a.pc = "cleanup"
                  /\ b.pc = "returned"
                  /\ b.sent = a.sent /\ b.recvs = a.recvs
                  /\ (a.exc # Absent) =>
                        /\ b.ret.env.result = "error"
                        /\ b.ret.env.error = a.exc
    ]_vars

C22_Witness ==
    \E c \in Callers :
        /\ send[c].pc = "returned"
        /\ send[c].exc = "timed out"
        /\ send[c].recvs = 1
        /\ Len(send[c].sent) = 1
        /\ send[c].ret.env.result = "error"

\* C23: when a send_code_to_rhino call has returned, the socket it opened (if
\* any) has been closed by the call, whether it returns success or an error
C23_SocketClosedAtReturn ==
    \A c \in Callers :
        send[c].pc = "returned" => send[c].sock # "open"

\* The names the globals of an in-process exec hold before any parameter
FixedGlobals(branch) ==
    IF branch = "rhino3dm" THEN {"r3d", "parameters"}
    ELSE {"Rhino", "rg", "sc", "use_rhino3dm"}

\* C24: each in-process execute runs in a namespace made of the backend's
\* fixed globals and the call's own parameters and of nothing else, so a name
\* bound by an earlier call is not defined in a later one; the call leaves
\* rhino_instance, config and connected as they were
C24_FreshNamespacePerCall ==
    [][(last' # last /\ last'.op = "execute_code"
                    /\ last'.dispatch \in {"rhinoinside", "rhino3dm"}) =>
          /\ DOMAIN last'.input.globals =
                FixedGlobals(last'.dispatch) \cup DOMAIN last'.input.parameters
          /\ (/\ last'.input.reads # Absent
              /\ last'.input.reads \notin FixedGlobals(last'.dispatch)
              /\ last'.input.reads \notin DOMAIN last'.input.parameters)
                => /\ last'.ret.env.result = "error"
                   /\ last'.ret.env.error = "name is not defined"
          /\ rhino_instance' = rhino_instance
          /\ config' = config
          /\ connected' = connected
    ]_vars

\* An in-process call reads the name g, which neither the backend nor the
\* call's parameters supply, and finds it undefined
C24_Witness ==
    /\ last.op = "execute_code"
    /\ last.dispatch = "rhinoinside"
    /\ last.input.code = "result = g"
    /\ last.ret.env.result = "error"

\* The statements of send_code_to_rhino between the creation of the file and
\* its removal, and those of the exchange with the listener
HoldsFile(c) == send[c].pc \in {"write", "connect", "sendall", "recv", "close", "cleanup"}
InExchange(c) == send[c].pc \in {"sendall", "recv", "close"}

\* C25: under any interleaving of concurrent send_code_to_rhino calls, two
\* calls that hold a temporary file hold different files; from the moment a
\* call is about to send its path until its exchange is over, the file at
\* that path exists and contains that call's code and nothing else, so no
\* other call's write or cleanup has touched it
C25_ConcurrentSendsKeepOwnFiles ==
    /\ \A c1, c2 \in Callers :
          (c1 # c2 /\ HoldsFile(c1) /\ HoldsFile(c2)) =>
              send[c1].temp_path # send[c2].temp_path
    /\ \A c \in Callers :
          InExchange(c) => fs[send[c].temp_path] = File(c, send[c].code)
    /\ \A c \in Callers :
          send[c].sent # <<>> => send[c].sent[1].filename = send[c].temp_path

\* One call has finished and removed its file while the other is still
\* waiting for its answer
C25_Witness ==
    \E c1, c2 \in Callers :
        /\ c1 # c2
        /\ send[c1].pc = "recv"
        /\ send[c2].pc = "returned"
        /\ send[c2].sent # <<>>
        /\ send[c1].code # send[c2].code

\* C26: while connected is false no public method reaches a backend: a
\* dispatcher operation called then makes no exec, HTTP or library call, and
\* no send_code_to_rhino call has opened a socket or sent a message
C26_NoIoWhileNotConnected ==
    /\ (last.op \in DispatcherOps /\ ~connected) => last.ret.io = <<>>
    /\ \A c \in DOMAIN send :
          (send[c].sock # "none" \/ send[c].sent # <<>>) => connected

\* What a dispatcher operation hands back when it found connected false
RefusedAsNotConnected(ret) ==
    /\ ret.io = <<>>
    /\ \/ ret.kind = "raise" /\ ret.exc = "RuntimeError"
       \/ ret.kind = "return" /\ ret.env = ErrorOnly(NotConnectedMsg)

\* C27: connected becomes true only in an initialize() that returned without
\* raising; an initialize() that raises on a connection whose flag is false
\* leaves it false; and as long as the flag is false every public operation
\* behaves as not connected: the dispatcher operations refuse, and
\* send_code_to_rhino opens no socket
C27_FailedInitializeLeavesDisconnected ==
    [][/\ (connected' /\ ~connected) =>
             /\ last'.op = "initialize"
             /\ last'.ret.kind = "return"
       /\ (last' # last /\ last'.op = "initialize" /\ last'.ret.kind = "raise") =>
             connected' = connected
       /\ (last' # last /\ last'.op \in DispatcherOps /\ ~connected) =>
             RefusedAsNotConnected(last'.ret)
       /\ ~connected =>
             \A c \in DOMAIN send : send'[c].sock = "none" /\ send'[c].sent = <<>>
    ]_vars

\* The two operations that create a node of the Grasshopper definition
NodeOps == {"add_gh_component", "create_gh_script_component"}

EnvelopeOk(env) ==
    /\ env.result \in {"success", "error"}
    /\ (env.result = "error") <=> (env.error # Absent)
    /\ (env.result = "error") => (env.data = Absent /\ env.response \in {Absent, ""})

\* C29: every result dictionary an operation returns, the combined ones of
\* generate_and_execute_rhino_code and generate_and_execute_gh_code included,
\* has status success or error, has an error field exactly when the status
\* is error, and on error has no data or response payload
C29_EnvelopeInvariant ==
    /\ (last.ret.kind = "return" /\ last.ret.env # NoEnvelope) => EnvelopeOk(last.ret.env)
    /\ \A c \in DOMAIN send :
          send[c].pc = "returned" => EnvelopeOk(send[c].ret.env)

\* The parameter component the claim assigns to each type of input value
ComponentForType(type) ==
    CASE type \in {"int", "float"} -> "Number"
      [] type = "str"              -> "Text"
      [] type = "bool"             -> "Boolean"
      [] OTHER                     -> "Unsupported input type"

\* C30: every parameter component call_grasshopper_plugin creates for an
\* input has the type of the input's value (Number for a number, Text for a
\* string, Boolean for a boolean, so never Number for a boolean), and the
\* call ends with 'Unsupported input type' only at an input of another type
C30_InputsMaterialisedByType ==
    last.op = "call_grasshopper_plugin" =>
        /\ \A i \in 1..Len(last.ret.made) :
              /\ last.ret.made[i].value = last.input.inputs[i]
              /\ last.ret.made[i].component = ComponentForType(last.ret.made[i].value.type)
        /\ last.ret.text = "Unsupported input type" =>
              ComponentForType(last.input.inputs[Len(last.ret.made) + 1].type)
                  = "Unsupported input type"

====
